---- MODULE Spec2Model ----
(***************************************************************************)
(* Ledger consistency core of the Banking-App: the Account model methods   *)
(* (can_withdraw / deposit / withdraw), the login_required decorator, the  *)
(* three transaction forms and the deposit / withdraw / transfer views,    *)
(* run as concurrent HTTP requests against one database; and the account   *)
(* number assigned by Account.save / generate_account_number.              *)
(*                                                                         *)
(* Money is counted in units of 0.01.  A database statement is one atomic  *)
(* step; a view is a sequence of such steps, so that requests interleave   *)
(* between the statements exactly where the code issues them.  Writes made *)
(* inside transaction.atomic() are pending until the block exits; rows     *)
(* read with select_for_update() stay locked until then, and an UPDATE of  *)
(* a locked row by another request waits for the lock.                     *)
(***************************************************************************)
EXTENDS Integers, Sequences, FiniteSets, TLC

\* ---------------------------------------------------------------- bounds
NumAccounts == 2        \* accounts in the database
NumRequests == 2        \* requests served, possibly at the same time
MaxAmount   == 2        \* largest amount a form submits
MaxBalance  == 4        \* largest value the balance column holds (scaled)
InitBalanceA == 2       \* opening balance of account 1
InitBalanceB == 3       \* opening balance of the other accounts
MaxSuffix   == 2        \* largest random suffix drawn (scaled from 9999)

SuffixLen   == 4        \* random.choices(string.digits, k=4)

Acc      == 1..NumAccounts
NoAcc    == 0                           \* an account number nobody owns
AccNums  == Acc \cup {NoAcc}            \* what a form field may carry
Req      == 1..NumRequests
NoReq    == 0
Amounts  == 0..MaxAmount
Statuses == {"Active", "Inactive", "Closed"}
Kinds    == {"deposit", "withdraw", "transfer"}

\* Account.pin: account a was registered with PIN a (all PINs differ).
PinOf(a) == a
Pins     == Acc
NoPin    == 0                           \* no PIN field in the form

InitBalance(a) == IF a = 1 THEN InitBalanceA ELSE InitBalanceB

\* No registration: the request creates no account.
NoDate == [year |-> 0, month |-> 0, day |-> 0]
NoReg  == [pc |-> "none", dob |-> NoDate, num |-> <<>>, pk |-> 0]

\* request.session.get('account_number') of a session without the key.
NoSession == 0 - 1

\* A response that lists nothing.
NoResp == [accounts |-> {}, txns |-> {}]

\* An Account instance in a request's memory.
NoObj == [num |-> NoAcc, balance |-> 0, status |-> "Active"]

VARIABLES
    accounts,   \* accounts[a]: the stored (committed) row: balance, status
    txns,       \* the Transaction table, in creation order
    lock,       \* lock[a]: the request whose atomic block holds the row lock
    pc,         \* pc[r]: where request r is in its view
    kind,       \* kind[r]: the view the request runs
    amount,     \* amount[r]: cleaned_data['amount']
    toNum,      \* toNum[r]: cleaned_data['to_account_number']
    mem,        \* mem[r]: request.account, loaded by login_required
    fl,         \* fl[r]: from_account_locked
    tl,         \* tl[r]: to_account
    pend,       \* pend[r]: rows written inside the atomic block, uncommitted
    seen,       \* seen[r]: Len(txns) when login_required loaded the account
    pinIn,      \* pinIn[r]: cleaned_data['pin']
    applied,    \* applied[k]: the k operations whose balance change is stored
    numbers,    \* numbers[i]: the account_number column of the row with pk i
    reg,        \* reg[r]: the Account instance a registration r is saving
    session,    \* session[r]: session['account_number'] of the browser of r
    resp,       \* resp[r]: the accounts and Transactions a rendered page lists
    accIn       \* accIn[r]: cleaned_data['account_number'] of the login form

vars == <<accounts, txns, lock, pc, kind, amount, toNum, mem, fl, tl,
          pend, seen, pinIn, applied, numbers, reg, session, resp,
          accIn>>

dbvars  == <<accounts, txns, lock>>
reqvars == <<pc, kind, amount, toNum, mem, fl, tl, pend, seen, pinIn>>
regvars == <<numbers, reg>>
sessvars == <<session, resp, accIn>>
viewvars == <<dbvars, reqvars, applied, sessvars>>

\* ------------------------------------------------------- Account methods

\* can_withdraw without the balance test.
can_withdraw_status_only(self, amt) == self.status = "Active"

\* Account.can_withdraw
can_withdraw(self, amt) == self.status = "Active" /\ self.balance >= amt

\* deposit that refuses an amount that is not positive.
Account_deposit_positive_only(self, amt) ==
    IF self.status = "Active" /\ amt > 0
    THEN [self |-> [self EXCEPT !.balance = @ + amt], ret |-> TRUE,
          saved |-> TRUE]
    ELSE [self |-> self, ret |-> FALSE, saved |-> FALSE]

\* deposit that does not look at the status.
Account_deposit_any_status(self, amt) ==
    [self |-> [self EXCEPT !.balance = @ + amt], ret |-> TRUE, saved |-> TRUE]

\* deposit that changes the instance but never calls save().
Account_deposit_no_save(self, amt) ==
    IF self.status = "Active"
    THEN [self |-> [self EXCEPT !.balance = @ + amt], ret |-> TRUE,
          saved |-> FALSE]
    ELSE [self |-> self, ret |-> FALSE, saved |-> FALSE]

\* Account.deposit: the instance after the call, the return value and
\* whether self.save() was called.
Account_deposit(self, amt) ==
    IF self.status = "Active"
    THEN [self |-> [self EXCEPT !.balance = @ + amt], ret |-> TRUE,
          saved |-> TRUE]
    ELSE [self |-> self, ret |-> FALSE, saved |-> FALSE]

\* withdraw that changes the instance but never calls save().
Account_withdraw_no_save(self, amt) ==
    IF can_withdraw(self, amt)
    THEN [self |-> [self EXCEPT !.balance = @ - amt], ret |-> TRUE,
          saved |-> FALSE]
    ELSE [self |-> self, ret |-> FALSE, saved |-> FALSE]

\* withdraw that does not ask can_withdraw.
Account_withdraw_unchecked(self, amt) ==
    [self |-> [self EXCEPT !.balance = @ - amt], ret |-> TRUE, saved |-> TRUE]

\* Account.withdraw
Account_withdraw(self, amt) ==
    IF can_withdraw(self, amt)
    THEN [self |-> [self EXCEPT !.balance = @ - amt], ret |-> TRUE,
          saved |-> TRUE]
    ELSE [self |-> self, ret |-> FALSE, saved |-> FALSE]

\* A column that stores a value of any size.
SaveRaises_never(self) == FALSE

\* Account.balance is DecimalField(max_digits=12, decimal_places=2): a save
\* of a value with more digits raises instead of storing it.
SaveRaises(self) == self.balance > MaxBalance \/ self.balance < -MaxBalance

\* A query that matches a row of any status.
ActiveRow_any_status(n) == n \in Acc

\* Account.objects.get(account_number=n, status='Active') finds a row.
ActiveRow(n) == n \in Acc /\ accounts[n].status = "Active"

\* The instance a query for account n returns.
Load(n) ==
    [num |-> n, balance |-> accounts[n].balance, status |-> accounts[n].status]

\* ------------------------------------------------------------- the state

Init ==
    /\ accounts = [a \in Acc |->
                      [balance |-> InitBalance(a), status |-> "Active"]]
    /\ txns    = <<>>
    /\ lock    = [a \in Acc |-> NoReq]
    /\ pc      = [r \in Req |-> "idle"]
    /\ kind    = [r \in Req |-> "deposit"]
    /\ amount  = [r \in Req |-> 0]
    /\ toNum   = [r \in Req |-> NoAcc]
    /\ mem     = [r \in Req |-> NoObj]
    /\ fl      = [r \in Req |-> NoObj]
    /\ tl      = [r \in Req |-> NoObj]
    /\ pend    = [r \in Req |-> <<>>]
    /\ seen    = [r \in Req |-> 0]
    /\ pinIn   = [r \in Req |-> NoPin]
    /\ applied = [k \in Kinds |-> 0]
    /\ numbers = <<>>
    /\ reg     = [r \in Req |-> NoReg]
    /\ session = [r \in Req |-> NoSession]
    /\ resp    = [r \in Req |-> NoResp]
    /\ accIn   = [r \in Req |-> NoAcc]

\* ---------------------------------------------------------- persistence

\* Model.save(): the UPDATE writes every column of the instance to its row.
RECURSIVE ApplyWrites(_, _)
ApplyWrites(rows, ws) ==
    IF ws = <<>> THEN rows
    ELSE ApplyWrites([rows EXCEPT ![Head(ws).num] =
                         [balance |-> Head(ws).balance,
                          status  |-> Head(ws).status]],
                     Tail(ws))

\* transaction.atomic() left normally: the pending writes become visible.
atomic_commit(rows, ws) == ApplyWrites(rows, ws)

\* An atomic block whose exit by exception keeps the writes made so far.
atomic_rollback_keeps(rows, ws) == ApplyWrites(rows, ws)

\* transaction.atomic() left by an exception: the pending writes are undone.
atomic_rollback(rows, ws) == rows

\* The row locks request r holds are released when its atomic block ends.
Release(r) == [a \in Acc |-> IF lock[a] = r THEN NoReq ELSE lock[a]]

\* An UPDATE or SELECT ... FOR UPDATE of row a by request r can proceed.
RowFree(r, a) == lock[a] \in {NoReq, r}

\* One more operation of view k has stored its balance change: a save()
\* outside an atomic block, or both saves of a committed transfer.
Applied(k) == [applied EXCEPT ![k] = @ + 1]

\* Transaction.objects.create(...)
Record(type, amt, from, to, bal) ==
    [type |-> type, amount |-> amt, from |-> from, to |-> to, bal |-> bal,
     status |-> "Completed"]

\* ------------------------------------------------------ login_required

\* The request ends with the given outcome; its objects are discarded.
Finish(r, outcome) ==
    /\ pc'     = [pc EXCEPT ![r] = outcome]
    /\ amount' = [amount EXCEPT ![r] = 0]
    /\ toNum'  = [toNum EXCEPT ![r] = NoAcc]
    /\ mem'    = [mem EXCEPT ![r] = NoObj]
    /\ fl'     = [fl EXCEPT ![r] = NoObj]
    /\ tl'     = [tl EXCEPT ![r] = NoObj]
    /\ seen'   = [seen EXCEPT ![r] = 0]
    /\ pinIn'  = [pinIn EXCEPT ![r] = NoPin]

\* The decorator: the session of request r holds account number a; the view
\* body runs with request.account loaded only if the row is Active now.
login_required(r, k, a) ==
    /\ pc[r] = "idle"
    /\ kind' = [kind EXCEPT ![r] = k]
    /\ IF ActiveRow(a)
       THEN /\ mem'  = [mem EXCEPT ![r] = Load(a)]
            /\ seen' = [seen EXCEPT ![r] = Len(txns)]
            /\ pc'   = [pc EXCEPT ![r] = "form"]
            /\ UNCHANGED <<amount, toNum, pinIn, fl, tl>>
       ELSE Finish(r, "redirect")
    /\ UNCHANGED <<dbvars, pend, applied, regvars, sessvars>>

\* --------------------------------------------------------------- forms
\* form.is_valid() is one step: its queries read the committed rows, hold no
\* lock, and nothing the forms read is written between them by the same
\* request.  The submitted account number and PIN are inputs of that step;
\* the views use only cleaned_data['amount'] and ['to_account_number'].

\* An amount field without min_value.
AmountField_no_min(amt) == amt <= MaxBalance

\* DecimalField(max_digits=12, decimal_places=2, min_value=0.01)
AmountField_valid(amt) == amt >= 1 /\ amt <= MaxBalance

\* DepositForm.is_valid(): the amount field and clean_account_number.
DepositForm_valid(accnum, amt) ==
    /\ AmountField_valid(amt)
    /\ ActiveRow(accnum)

\* WithdrawalForm.is_valid(): the amount field and clean().
WithdrawalForm_valid(accnum, pin, amt) ==
    /\ AmountField_valid(amt)
    /\ ActiveRow(accnum)
    /\ PinOf(accnum) = pin
    /\ ~(accounts[accnum].balance < amt)

\* TransferForm.is_valid(): the amount field and clean().
TransferForm_valid(fromnum, tonum, pin, amt) ==
    /\ AmountField_valid(amt)
    /\ fromnum # tonum
    /\ ActiveRow(fromnum)
    /\ PinOf(fromnum) = pin
    /\ ~(accounts[fromnum].balance < amt)
    /\ ActiveRow(tonum)

\* The view keeps cleaned_data of a valid form and re-renders an invalid one.
FormOutcome(r, valid, amt, tonum, pin) ==
    /\ IF valid
       THEN /\ amount' = [amount EXCEPT ![r] = amt]
            /\ toNum'  = [toNum EXCEPT ![r] = tonum]
            /\ pinIn'  = [pinIn EXCEPT ![r] = pin]
            /\ pc'     = [pc EXCEPT ![r] = "call"]
            /\ UNCHANGED <<mem, fl, tl, seen>>
       ELSE Finish(r, "rejected")
    /\ UNCHANGED <<dbvars, kind, pend, applied, regvars, sessvars>>

deposit_form(r) ==
    /\ pc[r] = "form" /\ kind[r] = "deposit"
    /\ \E accnum \in AccNums, amt \in Amounts :
          FormOutcome(r, DepositForm_valid(accnum, amt), amt, NoAcc, NoPin)

withdraw_form(r) ==
    /\ pc[r] = "form" /\ kind[r] = "withdraw"
    /\ \E accnum \in AccNums, pin \in Pins, amt \in Amounts :
          FormOutcome(r, WithdrawalForm_valid(accnum, pin, amt), amt, NoAcc,
                      pin)

transfer_form(r) ==
    /\ pc[r] = "form" /\ kind[r] = "transfer"
    /\ \E fromnum \in AccNums, tonum \in AccNums, pin \in Pins,
          amt \in Amounts :
          FormOutcome(r, TransferForm_valid(fromnum, tonum, pin, amt),
                      amt, tonum, pin)

\* ------------------------------------------------- deposit and withdraw

\* self.save() outside an atomic block: one UPDATE of the whole row, which
\* waits while another request's atomic block holds the row lock.
SaveRow(r, obj) ==
    /\ RowFree(r, obj.num)
    /\ accounts' = ApplyWrites(accounts, <<obj>>)

\* deposit view: account.deposit(amount); the return value is not tested.
deposit_call(r) ==
    /\ pc[r] = "call" /\ kind[r] = "deposit"
    /\ LET res == Account_deposit(mem[r], amount[r]) IN
       IF res.saved /\ SaveRaises(res.self)
       THEN /\ Finish(r, "error")
            /\ UNCHANGED <<accounts, applied>>
       ELSE /\ IF res.saved THEN SaveRow(r, res.self) /\ applied' = Applied(kind[r])
                            ELSE UNCHANGED <<accounts, applied>>
            /\ mem' = [mem EXCEPT ![r] = res.self]
            /\ pc'  = [pc EXCEPT ![r] = "record"]
            /\ UNCHANGED <<amount, toNum, pinIn, fl, tl, seen>>
    /\ UNCHANGED <<txns, lock, kind, pend, regvars, sessvars>>

\* A deposit view that rewrites the latest Transaction instead of creating
\* a new one.
deposit_record_update(r) ==
    /\ pc[r] = "record" /\ kind[r] = "deposit"
    /\ LET t == Record("Deposit", amount[r], NoAcc, mem[r].num,
                       mem[r].balance) IN
       txns' = IF txns = <<>> THEN <<t>>
               ELSE [txns EXCEPT ![Len(txns)] = t]
    /\ Finish(r, "done")
    /\ UNCHANGED <<accounts, lock, kind, pend, applied, regvars, sessvars>>

\* deposit view: Transaction.objects.create(transaction_type='Deposit', ...)
deposit_record(r) ==
    /\ pc[r] = "record" /\ kind[r] = "deposit"
    /\ txns' = Append(txns, Record("Deposit", amount[r], NoAcc, mem[r].num,
                                   mem[r].balance))
    /\ Finish(r, "done")
    /\ UNCHANGED <<accounts, lock, kind, pend, applied, regvars, sessvars>>

\* withdraw view: if account.withdraw(amount): ... else: messages.error
withdraw_call(r) ==
    /\ pc[r] = "call" /\ kind[r] = "withdraw"
    /\ LET res == Account_withdraw(mem[r], amount[r]) IN
       IF res.saved /\ SaveRaises(res.self)
       THEN /\ Finish(r, "error")
            /\ UNCHANGED <<accounts, applied>>
       ELSE IF res.ret
       THEN /\ IF res.saved THEN SaveRow(r, res.self) /\ applied' = Applied(kind[r])
                            ELSE UNCHANGED <<accounts, applied>>
            /\ mem' = [mem EXCEPT ![r] = res.self]
            /\ pc'  = [pc EXCEPT ![r] = "record"]
            /\ UNCHANGED <<amount, toNum, pinIn, fl, tl, seen>>
       ELSE /\ IF res.saved THEN SaveRow(r, res.self) /\ applied' = Applied(kind[r])
                            ELSE UNCHANGED <<accounts, applied>>
            /\ Finish(r, "failed")
    /\ UNCHANGED <<txns, lock, kind, pend, regvars, sessvars>>

\* withdraw view: Transaction.objects.create(transaction_type='Withdrawal')
withdraw_record(r) ==
    /\ pc[r] = "record" /\ kind[r] = "withdraw"
    /\ txns' = Append(txns, Record("Withdrawal", amount[r], mem[r].num, NoAcc,
                                   mem[r].balance))
    /\ Finish(r, "done")
    /\ UNCHANGED <<accounts, lock, kind, pend, applied, regvars, sessvars>>

\* ------------------------------------------------------------ transfer

\* An exception leaves the atomic block: roll back, release the row locks.
AtomicAbort(r, outcome) ==
    /\ accounts' = atomic_rollback(accounts, pend[r])
    /\ lock' = Release(r)
    /\ pend' = [pend EXCEPT ![r] = <<>>]
    /\ Finish(r, outcome)

\* Control leaves the atomic block normally: commit, release the row locks.
AtomicExit(r, outcome) ==
    /\ accounts' = atomic_commit(accounts, pend[r])
    /\ lock' = Release(r)
    /\ pend' = [pend EXCEPT ![r] = <<>>]
    /\ Finish(r, outcome)

\* from_account_locked = Account.objects.select_for_update().get(
\*     account_number=from_account.account_number, status='Active')
transfer_lock_from(r) ==
    /\ pc[r] = "call" /\ kind[r] = "transfer"
    /\ IF ActiveRow(mem[r].num)
       THEN /\ RowFree(r, mem[r].num)
            /\ lock' = [lock EXCEPT ![mem[r].num] = r]
            /\ fl'   = [fl EXCEPT ![r] = Load(mem[r].num)]
            /\ pc'   = [pc EXCEPT ![r] = "lock_to"]
            /\ UNCHANGED <<accounts, pend, amount, toNum, pinIn, mem, tl, seen>>
       ELSE AtomicAbort(r, "notfound")
    /\ UNCHANGED <<txns, kind, applied, regvars, sessvars>>

\* to_account = Account.objects.select_for_update().get(
\*     account_number=to_account_number, status='Active')
transfer_lock_to(r) ==
    /\ pc[r] = "lock_to"
    /\ IF ActiveRow(toNum[r])
       THEN /\ RowFree(r, toNum[r])
            /\ lock' = [lock EXCEPT ![toNum[r]] = r]
            /\ tl'   = [tl EXCEPT ![r] = Load(toNum[r])]
            /\ pc'   = [pc EXCEPT ![r] = "debit"]
            /\ UNCHANGED <<accounts, pend, amount, toNum, pinIn, mem, fl, seen>>
       ELSE AtomicAbort(r, "notfound")
    /\ UNCHANGED <<txns, kind, applied, regvars, sessvars>>

\* A transfer without the balance test under the lock.
InsufficientUnderLock_skipped(obj, amt) == FALSE

\* if from_account_locked.balance < amount:
InsufficientUnderLock(obj, amt) == obj.balance < amt

\* if from_account_locked.balance < amount: return render(...)
\* from_account_locked.withdraw(amount)
transfer_debit(r) ==
    /\ pc[r] = "debit"
    /\ IF InsufficientUnderLock(fl[r], amount[r])
       THEN AtomicExit(r, "insufficient")
       ELSE LET res == Account_withdraw(fl[r], amount[r]) IN
            IF res.saved /\ SaveRaises(res.self)
            THEN AtomicAbort(r, "error")
            ELSE /\ fl'   = [fl EXCEPT ![r] = res.self]
                 /\ pend' = [pend EXCEPT ![r] =
                               IF res.saved THEN Append(@, res.self) ELSE @]
                 /\ pc'   = [pc EXCEPT ![r] = "credit"]
                 /\ UNCHANGED <<accounts, lock, amount, toNum, pinIn, mem, tl, seen>>
    /\ UNCHANGED <<txns, kind, applied, regvars, sessvars>>

\* to_account.deposit(amount)
transfer_credit(r) ==
    /\ pc[r] = "credit"
    /\ LET res == Account_deposit(tl[r], amount[r]) IN
       IF res.saved /\ SaveRaises(res.self)
       THEN AtomicAbort(r, "error")
       ELSE /\ tl'   = [tl EXCEPT ![r] = res.self]
            /\ pend' = [pend EXCEPT ![r] =
                          IF res.saved THEN Append(@, res.self) ELSE @]
            /\ pc'   = [pc EXCEPT ![r] = "commit"]
            /\ UNCHANGED <<accounts, lock, amount, toNum, pinIn, mem, fl, seen>>
    /\ UNCHANGED <<txns, kind, applied, regvars, sessvars>>

\* Transaction.objects.create(transaction_type='Transfer', ...), then the
\* atomic block ends with return redirect(...).
transfer_commit(r) ==
    /\ pc[r] = "commit"
    /\ txns' = Append(txns, Record("Transfer", amount[r], fl[r].num,
                                   tl[r].num, fl[r].balance))
    /\ AtomicExit(r, "done")
    /\ applied' = IF Len(pend[r]) = 2 THEN Applied("transfer") ELSE applied
    /\ UNCHANGED <<kind, regvars, sessvars>>

\* ------------------------------------------------------------ the rest

Finished == {"done", "rejected", "failed", "insufficient", "notfound",
             "error", "redirect"}

\* AccountAdmin: status is an editable field of the admin change form.
admin_set_status(a, s) ==
    /\ accounts[a].status # s
    /\ lock[a] = NoReq
    /\ accounts' = [accounts EXCEPT ![a].status = s]
    /\ UNCHANGED <<txns, lock, reqvars, applied, regvars, sessvars>>

Next ==
    \/ \E r \in Req, k \in Kinds, a \in Acc : login_required(r, k, a)
    \/ \E r \in Req : deposit_form(r)
    \/ \E r \in Req : deposit_call(r)
    \/ \E r \in Req : deposit_record(r)
    \/ \E r \in Req : withdraw_form(r)
    \/ \E r \in Req : withdraw_call(r)
    \/ \E r \in Req : withdraw_record(r)
    \/ \E r \in Req : transfer_form(r)
    \/ \E r \in Req : transfer_lock_from(r)
    \/ \E r \in Req : transfer_lock_to(r)
    \/ \E r \in Req : transfer_debit(r)
    \/ \E r \in Req : transfer_credit(r)
    \/ \E r \in Req : transfer_commit(r)
    \/ \E a \in Acc, s \in Statuses : admin_set_status(a, s)

Spec == Init /\ [][Next]_vars

\* Only transfer requests are served (and no administrator acts).
NextTransfers ==
    \/ \E r \in Req, a \in Acc : login_required(r, "transfer", a)
    \/ \E r \in Req : transfer_form(r)
    \/ \E r \in Req : transfer_lock_from(r)
    \/ \E r \in Req : transfer_lock_to(r)
    \/ \E r \in Req : transfer_debit(r)
    \/ \E r \in Req : transfer_credit(r)
    \/ \E r \in Req : transfer_commit(r)

SpecTransfers == Init /\ [][NextTransfers]_vars

\* ------------------------------------------- the Account methods alone

\* Amounts a direct caller of the methods may pass (no form in between).
LedgerAmounts == (0 - MaxAmount)..MaxAmount

\* Rows of any status and any balance the column can hold.
InitLedger ==
    /\ accounts \in [Acc -> [balance : 0..MaxBalance, status : Statuses]]
    /\ txns    = <<>>
    /\ lock    = [a \in Acc |-> NoReq]
    /\ pc      = [r \in Req |-> "idle"]
    /\ kind    = [r \in Req |-> "deposit"]
    /\ amount  = [r \in Req |-> 0]
    /\ toNum   = [r \in Req |-> NoAcc]
    /\ mem     = [r \in Req |-> NoObj]
    /\ fl      = [r \in Req |-> NoObj]
    /\ tl      = [r \in Req |-> NoObj]
    /\ pend    = [r \in Req |-> <<>>]
    /\ seen    = [r \in Req |-> 0]
    /\ pinIn   = [r \in Req |-> NoPin]
    /\ applied = [k \in Kinds |-> 0]
    /\ numbers = <<>>
    /\ reg     = [r \in Req |-> NoReg]
    /\ session = [r \in Req |-> NoSession]
    /\ resp    = [r \in Req |-> NoResp]
    /\ accIn   = [r \in Req |-> NoAcc]

\* A caller fetches the instance of account a, whatever its status, to call
\* method k with amount amt; one caller runs at a time.
ledger_load(r, a, k, amt) ==
    /\ \A q \in Req : pc[q] = "idle"
    /\ pc'     = [pc EXCEPT ![r] = "loaded"]
    /\ kind'   = [kind EXCEPT ![r] = k]
    /\ amount' = [amount EXCEPT ![r] = amt]
    /\ mem'    = [mem EXCEPT ![r] = Load(a)]
    /\ UNCHANGED <<dbvars, toNum, pinIn, fl, tl, pend, seen, applied, regvars, sessvars>>

\* account.deposit(amount) or account.withdraw(amount)
ledger_call(r) ==
    /\ pc[r] = "loaded"
    /\ LET res == IF kind[r] = "deposit"
                  THEN Account_deposit(mem[r], amount[r])
                  ELSE Account_withdraw(mem[r], amount[r]) IN
       IF res.saved /\ SaveRaises(res.self)
       THEN /\ pc' = [pc EXCEPT ![r] = "raised"]
            /\ UNCHANGED <<accounts, mem>>
       ELSE /\ IF res.saved THEN SaveRow(r, res.self)
                            ELSE UNCHANGED accounts
            /\ mem' = [mem EXCEPT ![r] = res.self]
            /\ pc'  = [pc EXCEPT ![r] = IF res.ret THEN "returned_true"
                                                   ELSE "returned_false"]
    /\ UNCHANGED <<txns, lock, kind, amount, toNum, pinIn, fl, tl, pend, seen,
                   applied, regvars, sessvars>>

\* The caller drops the instance.
ledger_return(r) ==
    /\ pc[r] \in {"returned_true", "returned_false", "raised"}
    /\ Finish(r, "idle")
    /\ UNCHANGED <<dbvars, kind, pend, applied, regvars, sessvars>>

\* A caller fetches the instance of account a to call deposit(amt) and then
\* withdraw(amt) on it; fl[r] keeps the instance as it was fetched.
roundtrip_load(r, a, amt) ==
    /\ \A q \in Req : pc[q] = "idle"
    /\ pc'     = [pc EXCEPT ![r] = "fetched"]
    /\ kind'   = [kind EXCEPT ![r] = "deposit"]
    /\ amount' = [amount EXCEPT ![r] = amt]
    /\ mem'    = [mem EXCEPT ![r] = Load(a)]
    /\ fl'     = [fl EXCEPT ![r] = Load(a)]
    /\ UNCHANGED <<dbvars, toNum, pinIn, tl, pend, seen, applied, regvars, sessvars>>

\* account.deposit(amount), the first call of the pair
roundtrip_deposit(r) ==
    /\ pc[r] = "fetched"
    /\ LET res == Account_deposit(mem[r], amount[r]) IN
       IF res.saved /\ SaveRaises(res.self)
       THEN /\ pc' = [pc EXCEPT ![r] = "raised"]
            /\ UNCHANGED <<accounts, mem>>
       ELSE /\ IF res.saved THEN SaveRow(r, res.self)
                            ELSE UNCHANGED accounts
            /\ mem' = [mem EXCEPT ![r] = res.self]
            /\ pc'  = [pc EXCEPT ![r] = IF res.ret THEN "deposited"
                                                   ELSE "returned_false"]
    /\ UNCHANGED <<txns, lock, kind, amount, toNum, pinIn, fl, tl, pend, seen,
                   applied, regvars, sessvars>>

\* account.withdraw(amount) on the same instance, the second call
roundtrip_withdraw(r) ==
    /\ pc[r] = "deposited"
    /\ LET res == Account_withdraw(mem[r], amount[r]) IN
       IF res.saved /\ SaveRaises(res.self)
       THEN /\ pc' = [pc EXCEPT ![r] = "raised"]
            /\ UNCHANGED <<accounts, mem>>
       ELSE /\ IF res.saved THEN SaveRow(r, res.self)
                            ELSE UNCHANGED accounts
            /\ mem' = [mem EXCEPT ![r] = res.self]
            /\ pc'  = [pc EXCEPT ![r] = IF res.ret THEN "returned_true"
                                                   ELSE "returned_false"]
    /\ UNCHANGED <<txns, lock, kind, amount, toNum, pinIn, fl, tl, pend, seen,
                   applied, regvars, sessvars>>

\* A caller fetches the instance of account a to ask can_withdraw(amt).
can_withdraw_load(r, a, amt) ==
    /\ \A q \in Req : pc[q] = "idle"
    /\ pc'     = [pc EXCEPT ![r] = "asking"]
    /\ kind'   = [kind EXCEPT ![r] = "can_withdraw"]
    /\ amount' = [amount EXCEPT ![r] = amt]
    /\ mem'    = [mem EXCEPT ![r] = Load(a)]
    /\ UNCHANGED <<dbvars, toNum, pinIn, fl, tl, pend, seen, applied, regvars,
                   sessvars>>

\* account.can_withdraw(amount): the method assigns nothing and saves nothing.
can_withdraw_call(r) ==
    /\ pc[r] = "asking"
    /\ pc' = [pc EXCEPT ![r] = IF can_withdraw(mem[r], amount[r])
                               THEN "returned_true" ELSE "returned_false"]
    /\ UNCHANGED <<dbvars, kind, amount, toNum, pinIn, mem, fl, tl, pend, seen,
                   applied, regvars, sessvars>>

NextLedger ==
    \/ \E r \in Req, a \in Acc, k \in {"deposit", "withdraw"},
          amt \in LedgerAmounts : ledger_load(r, a, k, amt)
    \/ \E r \in Req : ledger_call(r)
    \/ \E r \in Req : ledger_return(r)
    \/ \E r \in Req, a \in Acc, amt \in LedgerAmounts :
          roundtrip_load(r, a, amt)
    \/ \E r \in Req : roundtrip_deposit(r)
    \/ \E r \in Req : roundtrip_withdraw(r)
    \/ \E r \in Req, a \in Acc, amt \in LedgerAmounts :
          can_withdraw_load(r, a, amt)
    \/ \E r \in Req : can_withdraw_call(r)

SpecLedger == InitLedger /\ [][NextLedger]_vars

\* Only deposit and withdraw requests are served.
NextSingle ==
    \/ \E r \in Req, k \in {"deposit", "withdraw"}, a \in Acc :
          login_required(r, k, a)
    \/ \E r \in Req : deposit_form(r)
    \/ \E r \in Req : deposit_call(r)
    \/ \E r \in Req : deposit_record(r)
    \/ \E r \in Req : withdraw_form(r)
    \/ \E r \in Req : withdraw_call(r)
    \/ \E r \in Req : withdraw_record(r)

SpecSingle == Init /\ [][NextSingle]_vars

\* ------------------------------------------------- sessions and pages
\* A browser r keeps one session; its requests are served one after the
\* other.  account_login and account_logout are single steps (one query at
\* most); a login_required view is the decorator's step followed by the
\* steps of the view body.

PageKinds == {"history", "all", "detail", "list"}
AllKinds  == Kinds \cup PageKinds

\* What the type filter of all_transactions may carry ("" is no filter).
TypeFilters == {"", "Deposit", "Withdrawal", "Transfer", "Interest"}

\* request.session.flush()
Flush(r) == [session EXCEPT ![r] = NoSession]

\* Transaction.objects.filter(Q(from_account=account) | Q(to_account=account))
Involving(a) == {i \in DOMAIN txns : txns[i].from = a \/ txns[i].to = a}

\* login_required._wrapped_view: the decorator in front of view k, reading
\* the session of browser r.
wrapped_view(r, k) ==
    /\ pc[r] = "idle"
    /\ kind' = [kind EXCEPT ![r] = k]
    /\ IF session[r] = NoSession
       THEN /\ Finish(r, "to_login")
            /\ UNCHANGED session
       ELSE IF ActiveRow(session[r])
       THEN /\ mem'  = [mem EXCEPT ![r] = Load(session[r])]
            /\ seen' = [seen EXCEPT ![r] = Len(txns)]
            /\ pc'   = [pc EXCEPT ![r] = "form"]
            /\ UNCHANGED <<amount, toNum, pinIn, fl, tl, session>>
       ELSE /\ session' = Flush(r)
            /\ Finish(r, "to_login")
    /\ UNCHANGED <<dbvars, pend, applied, regvars, resp, accIn>>

\* AccountLoginForm.is_valid(): both fields are required.
AccountLoginForm_valid(accnum, pin) == pin # NoPin

\* account_login that does not compare the PIN.
account_login_no_pin(r, accnum, pin) ==
    /\ pc[r] = "idle"
    /\ IF session[r] # NoSession
       THEN /\ pc' = [pc EXCEPT ![r] = "login_already"]
            /\ UNCHANGED <<session, accIn, pinIn>>
       ELSE /\ accIn' = [accIn EXCEPT ![r] = accnum]
            /\ pinIn' = [pinIn EXCEPT ![r] = pin]
            /\ IF AccountLoginForm_valid(accnum, pin) /\ ActiveRow(accnum)
               THEN /\ session' = [session EXCEPT ![r] = accnum]
                    /\ pc' = [pc EXCEPT ![r] = "login_ok"]
               ELSE /\ pc' = [pc EXCEPT ![r] = "login_failed"]
                    /\ UNCHANGED session
    /\ UNCHANGED <<dbvars, kind, amount, toNum, mem, fl, tl, pend, seen,
                   applied, regvars, resp>>

\* account_login, a POST with the submitted account number and PIN
account_login(r, accnum, pin) ==
    /\ pc[r] = "idle"
    /\ IF session[r] # NoSession
       THEN /\ pc' = [pc EXCEPT ![r] = "login_already"]
            /\ UNCHANGED <<session, accIn, pinIn>>
       ELSE /\ accIn' = [accIn EXCEPT ![r] = accnum]
            /\ pinIn' = [pinIn EXCEPT ![r] = pin]
            /\ IF /\ AccountLoginForm_valid(accnum, pin)
                  /\ ActiveRow(accnum)
                  /\ PinOf(accnum) = pin
               THEN /\ session' = [session EXCEPT ![r] = accnum]
                    /\ pc' = [pc EXCEPT ![r] = "login_ok"]
               ELSE /\ pc' = [pc EXCEPT ![r] = "login_failed"]
                    /\ UNCHANGED session
    /\ UNCHANGED <<dbvars, kind, amount, toNum, mem, fl, tl, pend, seen,
                   applied, regvars, resp>>

\* account_logout
account_logout(r) ==
    /\ pc[r] = "idle"
    /\ session' = Flush(r)
    /\ pc' = [pc EXCEPT ![r] = "logged_out"]
    /\ UNCHANGED <<dbvars, kind, amount, toNum, pinIn, mem, fl, tl, pend, seen,
                   applied, regvars, resp, accIn>>

\* The page of view body r is rendered with the given lists.
Render(r, accs, ts) ==
    /\ resp' = [resp EXCEPT ![r] = [accounts |-> accs, txns |-> ts]]
    /\ Finish(r, "shown")
    /\ UNCHANGED <<dbvars, kind, pend, applied, regvars, session, accIn>>

\* account_list: Account.objects.all(), narrowed by the search query (here
\* an account number; NoAcc is the empty query).
account_list(r, search) ==
    /\ pc[r] = "form" /\ kind[r] = "list"
    /\ Render(r, {a \in Acc : search \in {NoAcc, a}}, {})

\* account_detail
account_detail(r) ==
    /\ pc[r] = "form" /\ kind[r] = "detail"
    /\ Render(r, {mem[r].num}, Involving(mem[r].num))

\* transaction_history that trusts the account number of the URL.
transaction_history_by_url(r, account_number) ==
    /\ pc[r] = "form" /\ kind[r] = "history"
    /\ Render(r, {mem[r].num},
              Involving(IF account_number # NoAcc THEN account_number
                                                 ELSE mem[r].num))

\* transaction_history: the account_number argument only produces a message.
transaction_history(r, account_number) ==
    /\ pc[r] = "form" /\ kind[r] = "history"
    /\ Render(r, {mem[r].num}, Involving(mem[r].num))

\* all_transactions, with the ?type= filter
all_transactions(r, transaction_type) ==
    /\ pc[r] = "form" /\ kind[r] = "all"
    /\ Render(r, {mem[r].num},
              {i \in Involving(mem[r].num) :
                  transaction_type = "" \/ txns[i].type = transaction_type})

\* The response has been sent; the browser can send its next request.
SessionDone == {"to_login", "shown", "login_ok", "login_failed",
                "login_already", "logged_out"}

respond(r) ==
    /\ pc[r] \in SessionDone
    /\ Finish(r, "idle")
    /\ resp'  = [resp EXCEPT ![r] = NoResp]
    /\ accIn' = [accIn EXCEPT ![r] = NoAcc]
    /\ UNCHANGED <<dbvars, kind, pend, applied, regvars, session>>

\* A browser has no session, or the session of an account since deleted.
InitSession ==
    /\ session \in [Req -> {NoSession, NoAcc}]
    /\ accounts = [a \in Acc |->
                      [balance |-> InitBalance(a), status |-> "Active"]]
    /\ txns    = <<>>
    /\ lock    = [a \in Acc |-> NoReq]
    /\ pc      = [r \in Req |-> "idle"]
    /\ kind    = [r \in Req |-> "deposit"]
    /\ amount  = [r \in Req |-> 0]
    /\ toNum   = [r \in Req |-> NoAcc]
    /\ mem     = [r \in Req |-> NoObj]
    /\ fl      = [r \in Req |-> NoObj]
    /\ tl      = [r \in Req |-> NoObj]
    /\ pend    = [r \in Req |-> <<>>]
    /\ seen    = [r \in Req |-> 0]
    /\ pinIn   = [r \in Req |-> NoPin]
    /\ applied = [k \in Kinds |-> 0]
    /\ numbers = <<>>
    /\ reg     = [r \in Req |-> NoReg]
    /\ resp    = [r \in Req |-> NoResp]
    /\ accIn   = [r \in Req |-> NoAcc]

NextSession ==
    \/ \E r \in Req, k \in AllKinds : wrapped_view(r, k)
    \/ \E r \in Req, accnum \in AccNums, pin \in Pins \cup {NoPin} :
          account_login(r, accnum, pin)
    \/ \E r \in Req : account_logout(r)
    \/ \E r \in Req, search \in AccNums : account_list(r, search)
    \/ \E r \in Req : account_detail(r)
    \/ \E r \in Req, account_number \in AccNums :
          transaction_history(r, account_number)
    \/ \E r \in Req, transaction_type \in TypeFilters :
          all_transactions(r, transaction_type)
    \/ \E r \in Req : respond(r)
    \/ \E a \in Acc, s \in Statuses : admin_set_status(a, s)

SpecSession == InitSession /\ [][NextSession]_vars

\* The money views together with the pages, one request per browser.
NextPages ==
    \/ \E r \in Req, k \in AllKinds, a \in Acc : login_required(r, k, a)
    \/ \E r \in Req : deposit_form(r)
    \/ \E r \in Req : deposit_call(r)
    \/ \E r \in Req : deposit_record(r)
    \/ \E r \in Req : withdraw_form(r)
    \/ \E r \in Req : withdraw_call(r)
    \/ \E r \in Req : withdraw_record(r)
    \/ \E r \in Req : transfer_form(r)
    \/ \E r \in Req : transfer_lock_from(r)
    \/ \E r \in Req : transfer_lock_to(r)
    \/ \E r \in Req : transfer_debit(r)
    \/ \E r \in Req : transfer_credit(r)
    \/ \E r \in Req : transfer_commit(r)
    \/ \E r \in Req, search \in AccNums : account_list(r, search)
    \/ \E r \in Req : account_detail(r)
    \/ \E r \in Req, account_number \in AccNums :
          transaction_history(r, account_number)
    \/ \E r \in Req, transaction_type \in TypeFilters :
          all_transactions(r, transaction_type)

\* The accounts were opened empty and each has had one deposit since, which
\* brought it to its balance: the Transaction table holds those records.
InitPages ==
    /\ accounts = [a \in Acc |->
                      [balance |-> InitBalance(a), status |-> "Active"]]
    /\ txns    = [a \in Acc |->
                      Record("Deposit", InitBalance(a), NoAcc, a, InitBalance(a))]
    /\ lock    = [a \in Acc |-> NoReq]
    /\ pc      = [r \in Req |-> "idle"]
    /\ kind    = [r \in Req |-> "deposit"]
    /\ amount  = [r \in Req |-> 0]
    /\ toNum   = [r \in Req |-> NoAcc]
    /\ mem     = [r \in Req |-> NoObj]
    /\ fl      = [r \in Req |-> NoObj]
    /\ tl      = [r \in Req |-> NoObj]
    /\ pend    = [r \in Req |-> <<>>]
    /\ seen    = [r \in Req |-> 0]
    /\ pinIn   = [r \in Req |-> NoPin]
    /\ applied = [k \in Kinds |-> 0]
    /\ numbers = <<>>
    /\ reg     = [r \in Req |-> NoReg]
    /\ session = [r \in Req |-> NoSession]
    /\ resp    = [r \in Req |-> NoResp]
    /\ accIn   = [r \in Req |-> NoAcc]

SpecPages == InitPages /\ [][NextPages]_vars

\* ------------------------------------------- registration and later saves
\* The account_number column, by primary key.  A registration (account_create)
\* builds a new Account instance and saves it; a later save is the save() of
\* an instance that a deposit, withdraw or transfer loaded from its row.
\* Every query and every INSERT / UPDATE is one step.

\* Dates the form's DateField accepts (any valid date from year 1 on).
DOBs == {[year |-> 1990, month |-> 1, day |-> 1],
         [year |-> 2001, month |-> 12, day |-> 31],
         [year |-> 999, month |-> 1, day |-> 1]}

RECURSIVE Pow10(_)
Pow10(n) == IF n = 0 THEN 1 ELSE 10 * Pow10(n - 1)

\* The decimal digits of n, zero-padded to width w (most significant first).
Digits(n, w) == [i \in 1..w |-> (n \div Pow10(w - i)) % 10]

\* The decimal digits of n >= 0 without padding.
RECURSIVE DecDigits(_)
DecDigits(n) == IF n < 10 THEN <<n>> ELSE Append(DecDigits(n \div 10), n % 10)

\* self.date_of_birth.strftime('%Y%m%d'): %m and %d are zero-padded to two
\* digits; %Y is the year as the C library prints it, which on Linux is
\* without padding (date(999, 1, 1) gives '9990101').
strftime_Ymd(d) == DecDigits(d.year) \o Digits(d.month, 2) \o Digits(d.day, 2)

\* ''.join(random.choices(string.digits, k=4)): the k digits of a number
\* drawn from 0 .. 10^k - 1 (here from 0 .. MaxSuffix).
RandomSuffixes == 0..MaxSuffix
random_digits(n) == Digits(n, SuffixLen)

\* Account.objects.filter(account_number=n).exists()
Exists(rows, n) == \E i \in DOMAIN rows : rows[i] = n

\* A column without the unique constraint.
UniqueViolation_none(rows, n, pk) == FALSE

\* unique=True: a write of n to the row pk (0: a new row) is refused when
\* another row holds n.
UniqueViolation(rows, n, pk) == \E i \in DOMAIN rows : i # pk /\ rows[i] = n

\* save() that generates a number whatever the instance holds.
NeedsNumber_always(num) == TRUE

\* Account.save: if not self.account_number
NeedsNumber(num) == num = <<>>

\* account_create: form.save() builds the instance from the form (the
\* account number is not a form field) and calls account.save().
account_create(r, dob) ==
    /\ reg[r].pc = "none"
    /\ reg' = [reg EXCEPT ![r] = [pc |-> "save", dob |-> dob, num |-> <<>>,
                                  pk |-> 0]]
    /\ UNCHANGED <<viewvars, numbers>>

\* A deposit, withdraw or transfer request loads the row pk and, after its
\* balance change, calls save() on the instance.
account_load(r, pk) ==
    /\ reg[r].pc = "none"
    /\ pk \in DOMAIN numbers
    /\ reg' = [reg EXCEPT ![r] = [pc |-> "save", dob |-> NoDate,
                                  num |-> numbers[pk], pk |-> pk]]
    /\ UNCHANGED <<viewvars, numbers>>

\* Account.save, up to the call of super().save()
Account_save(r) ==
    /\ reg[r].pc = "save"
    /\ reg' = [reg EXCEPT ![r].pc = IF NeedsNumber(reg[r].num)
                                    THEN "generate" ELSE "super_save"]
    /\ UNCHANGED <<viewvars, numbers>>

\* generate_account_number: one turn of the while True loop, drawing n.
generate_account_number(r, n) ==
    /\ reg[r].pc = "generate"
    /\ LET account_num == strftime_Ymd(reg[r].dob) \o random_digits(n) IN
       IF ~Exists(numbers, account_num)
       THEN reg' = [reg EXCEPT ![r].num = account_num, ![r].pc = "super_save"]
       ELSE UNCHANGED reg
    /\ UNCHANGED <<viewvars, numbers>>

\* super().save(): INSERT of a new row or UPDATE of the loaded one; the
\* database raises IntegrityError on a duplicate account_number.
super_save(r) ==
    /\ reg[r].pc = "super_save"
    /\ IF UniqueViolation(numbers, reg[r].num, reg[r].pk)
       THEN /\ reg' = [reg EXCEPT ![r].pc = "integrity_error"]
            /\ UNCHANGED numbers
       ELSE IF reg[r].pk = 0
       THEN /\ numbers' = Append(numbers, reg[r].num)
            /\ reg' = [reg EXCEPT ![r].pc = "stored",
                                  ![r].pk = Len(numbers) + 1]
       ELSE /\ numbers' = [numbers EXCEPT ![reg[r].pk] = reg[r].num]
            /\ reg' = [reg EXCEPT ![r].pc = "updated"]
    /\ UNCHANGED viewvars

\* account_create after form.save(): the auto-login stores the new account's
\* number in the session, then the view redirects home.
account_create_login(r) ==
    /\ reg[r].pc = "stored"
    /\ session' = [session EXCEPT ![r] = reg[r].num]
    /\ reg' = [reg EXCEPT ![r].pc = "welcome"]
    /\ UNCHANGED <<dbvars, reqvars, applied, numbers, resp, accIn>>

NextGen ==
    \/ \E r \in Req, dob \in DOBs : account_create(r, dob)
    \/ \E r \in Req : account_create_login(r)
    \/ \E r \in Req, pk \in 1..NumRequests : account_load(r, pk)
    \/ \E r \in Req : Account_save(r)
    \/ \E r \in Req, n \in RandomSuffixes : generate_account_number(r, n)
    \/ \E r \in Req : super_save(r)

SpecGen == Init /\ [][NextGen]_vars

\* The table after earlier registrations with one date of birth: the first
\* k suffixes are assigned, for any k up to all of them.
InitGen ==
    /\ \E dob \in DOBs, k \in 0..(MaxSuffix + 1) :
          numbers = [i \in 1..k |-> strftime_Ymd(dob) \o random_digits(i - 1)]
    /\ accounts = [a \in Acc |->
                      [balance |-> InitBalance(a), status |-> "Active"]]
    /\ txns    = <<>>
    /\ lock    = [a \in Acc |-> NoReq]
    /\ pc      = [r \in Req |-> "idle"]
    /\ kind    = [r \in Req |-> "deposit"]
    /\ amount  = [r \in Req |-> 0]
    /\ toNum   = [r \in Req |-> NoAcc]
    /\ mem     = [r \in Req |-> NoObj]
    /\ fl      = [r \in Req |-> NoObj]
    /\ tl      = [r \in Req |-> NoObj]
    /\ pend    = [r \in Req |-> <<>>]
    /\ seen    = [r \in Req |-> 0]
    /\ pinIn   = [r \in Req |-> NoPin]
    /\ applied = [k \in Kinds |-> 0]
    /\ reg     = [r \in Req |-> NoReg]
    /\ session = [r \in Req |-> NoSession]
    /\ resp    = [r \in Req |-> NoResp]
    /\ accIn   = [r \in Req |-> NoAcc]

SpecGenLoaded == InitGen /\ [][NextGen]_vars

TypeOK ==
    /\ \A a \in Acc : accounts[a].status \in Statuses
    /\ \A a \in Acc : lock[a] \in Req \cup {NoReq}

\* ------------------------------------------------------------- helpers

RECURSIVE SumBalances(_)
SumBalances(S) ==
    IF S = {} THEN 0
    ELSE LET a == CHOOSE x \in S : TRUE
         IN accounts[a].balance + SumBalances(S \ {a})

AllFinished == \A r \in Req : pc[r] \in Finished \cup {"idle"}

\* ---------------------------------------------------------------- C1
\* C1: in every reachable state every account's stored balance is >= 0,
\* and so is every balance a transfer has written but not yet committed.
C1_BalanceNeverNegative ==
    /\ \A a \in Acc : accounts[a].balance >= 0
    /\ \A r \in Req : \A i \in 1..Len(pend[r]) : pend[r][i].balance >= 0

\* C1 witness: a withdrawal or a transfer has emptied an account.
C1_Witness ==
    \E i \in 1..Len(txns) :
        /\ txns[i].type \in {"Withdrawal", "Transfer"}
        /\ txns[i].bal = 0
        /\ accounts[txns[i].from].balance = 0

\* ---------------------------------------------------------------- C2
\* The pcs of a transfer between entering and leaving transaction.atomic().
InAtomic == {"call", "lock_to", "debit", "credit", "commit"}

\* Request r takes a step of its transfer.
TransferStep(r) ==
    /\ kind[r] = "transfer"
    /\ pc[r] \in InAtomic
    /\ pc'[r] # pc[r]

\* C2: the step that completes a successful transfer of X from A to a
\* distinct B lowers A's stored balance by exactly X, raises B's by exactly
\* X and appends exactly one Transfer record (amount X, from A, to B,
\* balance_after_transaction = A's new balance); A held at least X.
C2_TransferMovesExactlyX ==
    [][\A r \in Req :
         (TransferStep(r) /\ pc'[r] = "done" /\ fl[r].num # tl[r].num) =>
            LET A == fl[r].num
                B == tl[r].num
                X == amount[r]
            IN /\ accounts[A].status = "Active"
               /\ accounts[B].status = "Active"
               /\ accounts[A].balance >= X
               /\ accounts'[A].balance = accounts[A].balance - X
               /\ accounts'[B].balance = accounts[B].balance + X
               /\ txns' = Append(txns,
                     [type |-> "Transfer", amount |-> X, from |-> A,
                      to |-> B, bal |-> accounts[A].balance - X,
                      status |-> "Completed"])]_vars

\* C2 witness: a transfer between two distinct accounts has completed.
C2_Witness ==
    \E r \in Req : \E i \in 1..Len(txns) :
        /\ pc[r] = "done" /\ kind[r] = "transfer"
        /\ txns[i].type = "Transfer"
        /\ txns[i].from # txns[i].to
        /\ txns[i].bal = InitBalanceA - txns[i].amount

C4_SelfTransferChangesNothing ==
    [][\A r \in Req :
         (TransferStep(r) /\ toNum[r] = mem[r].num) =>
            accounts' = accounts /\ txns' = txns]_vars

\* ---------------------------------------------------------------- C5
RECURSIVE TransferredOut(_, _)
\* The total of the Transfer records that debit a in favour of another
\* account.
TransferredOut(seq, a) ==
    IF seq = <<>> THEN 0
    ELSE (IF Head(seq).type = "Transfer" /\ Head(seq).from = a
             /\ Head(seq).to # a
          THEN Head(seq).amount ELSE 0) + TransferredOut(Tail(seq), a)

RECURSIVE TransferredIn(_, _)
\* The total of the Transfer records that credit a.
TransferredIn(seq, a) ==
    IF seq = <<>> THEN 0
    ELSE (IF Head(seq).type = "Transfer" /\ Head(seq).to = a
          THEN Head(seq).amount ELSE 0) + TransferredIn(Tail(seq), a)

RECURSIVE TotalOf(_, _)
\* The total amount of the records of one type.
TotalOf(seq, type) ==
    IF seq = <<>> THEN 0
    ELSE (IF Head(seq).type = type THEN Head(seq).amount ELSE 0)
         + TotalOf(Tail(seq), type)

RECURSIVE InitTotal(_)
InitTotal(S) ==
    IF S = {} THEN 0
    ELSE LET a == CHOOSE x \in S : TRUE
         IN InitBalance(a) + InitTotal(S \ {a})

\* C6: once all requests have finished, the stored balances total the
\* initial total plus the recorded Deposits minus the recorded Withdrawals.
C6_NoUpdateLost ==
    AllFinished =>
        SumBalances(Acc) = InitTotal(Acc) + TotalOf(txns, "Deposit")
                                          - TotalOf(txns, "Withdrawal")

\* ---------------------------------------------------------------- C7
\* A transfer touching the account of request r committed after r loaded it.
TransferSince(r) ==
    \E i \in (seen[r] + 1)..Len(txns) :
        /\ txns[i].type = "Transfer"
        /\ mem[r].num \in {txns[i].from, txns[i].to}

\* C7: no deposit or withdraw request saves its account (a balance computed
\* from the value it loaded) after a transfer on that account has committed
\* since the load.
C7_NoOverwriteOfTransfer ==
    [][\A r \in Req :
         (kind[r] \in {"deposit", "withdraw"} /\ pc[r] = "call"
            /\ pc'[r] = "record") => ~TransferSince(r)]_vars

\* ---------------------------------------------------------------- C8
\* C8: no two transfers ever wait for each other's row lock.
C8_NoLockCycle ==
    ~ \E r1, r2 \in Req :
        /\ r1 # r2
        /\ pc[r1] = "lock_to" /\ pc[r2] = "lock_to"
        /\ ActiveRow(toNum[r1]) /\ lock[toNum[r1]] = r2
        /\ ActiveRow(toNum[r2]) /\ lock[toNum[r2]] = r1

\* ---------------------------------------------------------------- C9
\* C9: account.withdraw(amount) in the withdraw view with amount greater
\* than the account's balance returns False: the request ends as failed,
\* no stored row changes and no Transaction is created.
C9_OverdrawFails ==
    [][\A r \in Req :
         (kind[r] = "withdraw" /\ pc[r] = "call" /\ pc'[r] # pc[r]
            /\ amount[r] > mem[r].balance) =>
               /\ pc'[r] = "failed"
               /\ accounts' = accounts
               /\ txns' = txns]_vars

\* C9 witness: a withdraw request whose form was valid has failed in
\* account.withdraw, and no Transaction exists for it.
C9_Witness ==
    \E r \in Req :
        /\ pc[r] = "failed" /\ kind[r] = "withdraw"
        /\ \A i \in 1..Len(txns) : txns[i].type # "Withdrawal"

\* --------------------------------------------------------------- C10
\* C10: Account.deposit and Account.withdraw called on an instance whose
\* status is Inactive or Closed return False and change neither the
\* instance nor any stored row, whatever the amount.
C10_InactiveAccountUntouched ==
    [][\A r \in Req :
         (pc[r] = "loaded" /\ pc'[r] # "loaded"
            /\ mem[r].status \in {"Inactive", "Closed"}) =>
               /\ pc'[r] = "returned_false"
               /\ mem'[r] = mem[r]
               /\ accounts' = accounts]_vars

\* C10 witness: deposit with a positive amount has returned False on a
\* Closed account.
C10_Witness ==
    \E r \in Req :
        /\ pc[r] = "returned_false" /\ kind[r] = "deposit"
        /\ mem[r].status = "Closed"
        /\ amount[r] > 0

\* ---------------------------------------------------------------- C11
\* C11: no step changes the stored balance of an account whose stored status
\* is Inactive or Closed when the step is taken; in particular a request
\* that loaded the account while it was Active does not debit or credit it
\* after an administrator has set it Inactive or Closed.
C11_NoWriteToInactiveRow ==
    [][\A a \in Acc :
          accounts[a].status # "Active"
             => accounts'[a].balance = accounts[a].balance]_vars

\* ---------------------------------------------------------------- C12
\* C12: a withdrawal or transfer request changes a balance or creates a
\* Transaction only if the PIN it submitted is the PIN of the account it
\* debits, which is request.account, whatever account number the form carried.
C12_PinOfDebitedAccount ==
    [][\A r \in Req :
          /\ kind[r] \in {"withdraw", "transfer"}
          /\ pc'[r] # pc[r]
          /\ (accounts' # accounts \/ txns' # txns)
          => pinIn[r] = PinOf(mem[r].num)]_vars

\* ---------------------------------------------------------------- C13
\* The pair deposit(amount); withdraw(amount) on an Active instance with
\* amount > 0, with no other operation in between.
RoundTripCase(r) == fl[r].status = "Active" /\ amount[r] > 0

\* C13: on an Active account and for amount > 0, deposit(amount) returns
\* True, the following withdraw(amount) returns True, and the stored balance
\* and the instance's balance are then what they were before the deposit.
C13_RoundTripAlways ==
    [][\A r \in Req :
          /\ (pc[r] = "fetched" /\ pc'[r] # "fetched" /\ RoundTripCase(r))
                => pc'[r] = "deposited"
          /\ (pc[r] = "deposited" /\ pc'[r] # "deposited" /\ RoundTripCase(r))
                => /\ pc'[r] = "returned_true"
                   /\ mem'[r].balance = fl[r].balance
                   /\ accounts'[fl[r].num].balance = fl[r].balance]_vars

\* C13, within the column: the same, for a balance that is not negative and an amount
\* whose sum with it the balance column can hold (at most 12 digits).  Above
\* that the deposit's save raises and nothing is stored; below zero the
\* withdrawal is refused, the balance after the deposit being less than the
\* amount.
C13_RoundTripWithinColumn ==
    [][\A r \in Req :
          /\ (pc[r] = "fetched" /\ pc'[r] # "fetched" /\ RoundTripCase(r)
                /\ fl[r].balance + amount[r] <= MaxBalance)
                => pc'[r] = "deposited"
          /\ (pc[r] = "deposited" /\ pc'[r] # "deposited" /\ RoundTripCase(r)
                /\ fl[r].balance >= 0)
                => /\ pc'[r] = "returned_true"
                   /\ mem'[r].balance = fl[r].balance
                   /\ accounts'[fl[r].num].balance = fl[r].balance]_vars

\* C13 witness: a deposit of a positive amount followed by the withdrawal of
\* the same amount has returned True on an Active account.
C13_Witness ==
    \E r \in Req :
        /\ pc[r] = "returned_true" /\ fl[r].num \in Acc
        /\ RoundTripCase(r)
        /\ accounts[fl[r].num].balance = fl[r].balance

\* ---------------------------------------------------------------- C14
\* C14: every Transaction is a Deposit with to_account set and from_account
\* null, a Withdrawal with from_account set and to_account null, or a
\* Transfer with both set and different from each other.
C14_TransactionShapes ==
    \A i \in DOMAIN txns :
        LET t == txns[i] IN
        \/ t.type = "Deposit" /\ t.to \in Acc /\ t.from = NoAcc
        \/ t.type = "Withdrawal" /\ t.from \in Acc /\ t.to = NoAcc
        \/ t.type = "Transfer" /\ t.from \in Acc /\ t.to \in Acc
                               /\ t.from # t.to

\* ---------------------------------------------------------------- C15
CountOf(type) == Cardinality({i \in DOMAIN txns : txns[i].type = type})

\* C15: a Transaction exists only for an operation whose balance change has
\* been stored, and once every request has finished each kind has exactly as
\* many records as operations that stored their change; a deposit request
\* that is about to create its record holds an instance on which deposit
\* returned True (its status is Active).
C15_OneRecordPerAppliedOperation ==
    /\ CountOf("Deposit") <= applied["deposit"]
    /\ CountOf("Withdrawal") <= applied["withdraw"]
    /\ CountOf("Transfer") <= applied["transfer"]
    /\ AllFinished => /\ CountOf("Deposit") = applied["deposit"]
                      /\ CountOf("Withdrawal") = applied["withdraw"]
                      /\ CountOf("Transfer") = applied["transfer"]
    /\ \A r \in Req : (kind[r] = "deposit" /\ pc[r] = "record")
                         => mem[r].status = "Active"

\* C15 witness: all requests have finished, one with a stored deposit and
\* its record, the other without a balance change and without a record.
C15_Witness ==
    /\ AllFinished
    /\ \E r, q \in Req : /\ pc[r] = "done" /\ kind[r] = "deposit"
                         /\ pc[q] \in {"failed", "error", "insufficient"}
    /\ Len(txns) = 1 /\ applied["deposit"] = 1

\* ---------------------------------------------------------------- C16
\* C16: the balance_after_transaction of every Transaction is the balance
\* its own operation stored for the primary account: a deposit or withdraw
\* request stores the balance of its instance and then records that balance;
\* a transfer records the balance its commit leaves stored for the source.
C16_BalanceAfterIsStoredBalance ==
    [][\A r \in Req :
          /\ (pc[r] = "call" /\ pc'[r] = "record")
                => accounts'[mem'[r].num].balance = mem'[r].balance
          /\ (pc[r] = "record" /\ pc'[r] = "done")
                => txns'[Len(txns')].bal = mem[r].balance
          /\ (pc[r] = "commit" /\ pc'[r] = "done")
                => txns'[Len(txns')].bal =
                      accounts'[txns'[Len(txns')].from].balance]_vars

\* ---------------------------------------------------------------- C17
\* C17: Transactions are immutable: every step keeps every existing record,
\* with all its fields, at its place in the table; records are only added.
C17_TransactionsImmutable ==
    [][/\ Len(txns') >= Len(txns)
       /\ \A i \in DOMAIN txns : txns'[i] = txns[i]]_vars

\* C17 witness: a deposit has created its record in a table that already
\* held the record of an earlier operation.
C17_Witness ==
    /\ Len(txns) = 2
    /\ txns[2].type = "Deposit"
    /\ \E r \in Req : pc[r] = "done" /\ kind[r] = "deposit"

\* ---------------------------------------------------------------- C18
\* The number a digit string denotes.
RECURSIVE DecVal(_)
DecVal(ds) ==
    IF ds = <<>> THEN 0
    ELSE 10 * DecVal(SubSeq(ds, 1, Len(ds) - 1)) + ds[Len(ds)]

\* C18: the number generate_account_number returns has 12 characters, all
\* decimal digits, its first 8 are the date of birth as YYYYMMDD, and no
\* stored account has it when the existence query that let it through ran;
\* a registration that stores its row stores a number no earlier row holds.
C18_GeneratedNumber ==
    [][\A r \in Req :
          /\ (reg[r].pc = "generate" /\ reg'[r].pc = "super_save")
                => LET n == reg'[r].num
                       d == reg[r].dob IN
                   /\ Len(n) = 12
                   /\ \A i \in DOMAIN n : n[i] \in 0..9
                   /\ DecVal(SubSeq(n, 1, 4)) = d.year
                   /\ DecVal(SubSeq(n, 5, 6)) = d.month
                   /\ DecVal(SubSeq(n, 7, 8)) = d.day
                   /\ \A i \in DOMAIN numbers : numbers[i] # n
          /\ (reg[r].pc = "super_save" /\ reg'[r].pc = "stored")
                => \A i \in DOMAIN numbers :
                      numbers[i] # numbers'[Len(numbers')]]_vars

\* ---------------------------------------------------------------- C19
\* C19: in every reachable state the stored account numbers are pairwise
\* different, also when two registrations pass the existence query with the
\* same candidate before either has stored its row.
C19_AccountNumbersUnique ==
    \A i, j \in DOMAIN numbers : i # j => numbers[i] # numbers[j]

\* C19 witness: two registrations generated the same number; one stored its
\* row, the other's INSERT was refused.
C19_Witness ==
    \E r, q \in Req :
        /\ reg[r].pc = "stored" /\ reg[q].pc = "integrity_error"
        /\ reg[r].num = reg[q].num
        /\ numbers[reg[r].pk] = reg[r].num

\* ---------------------------------------------------------------- C20
\* C20: save() generates a number only for an instance that has no row yet,
\* and no step changes the account number of an existing row: the save of
\* an instance loaded by deposit, withdraw or transfer writes back the
\* number the row was created with.
C20_AccountNumberNeverChanges ==
    [][/\ \A i \in DOMAIN numbers : numbers'[i] = numbers[i]
       /\ \A r \in Req : (reg[r].pc = "save" /\ reg'[r].pc = "generate")
                            => reg[r].pk = 0]_vars

\* C20 witness: an instance loaded from an existing row has been saved again.
C20_Witness ==
    \E r \in Req : /\ reg[r].pc = "updated"
                   /\ numbers[reg[r].pk] = reg[r].num

\* ---------------------------------------------------------------- C21
\* C21: generate_account_number terminates whatever the date of birth and
\* the existing account numbers are: whenever a registration is in the loop,
\* some suffix it can draw gives a number that no account has, so that the
\* loop can return.
C21_GenerateCanReturn ==
    \A r \in Req :
        reg[r].pc = "generate"
           => \E n \in RandomSuffixes :
                 ~Exists(numbers, strftime_Ymd(reg[r].dob) \o random_digits(n))

\* ---------------------------------------------------------------- C22
\* The condition (status == Active and balance >= amount) on the instance of
\* caller r, and a withdraw call of r that has returned True with the
\* balance reduced by the amount in the instance and in the row.
WithdrawCondition(r) ==
    mem[r].status = "Active" /\ mem[r].balance >= amount[r]

\* The step is the call of can_withdraw by caller r.
CanWithdrawStep(r) == pc[r] = "asking" /\ pc'[r] # "asking"

\* The step is the call of withdraw by caller r.
WithdrawStep(r) ==
    pc[r] = "loaded" /\ kind[r] = "withdraw" /\ pc'[r] # "loaded"

\* The call of withdraw by r returns True with the balance reduced.
WithdrawSucceeds(r) ==
    /\ pc'[r] = "returned_true"
    /\ mem'[r].balance = mem[r].balance - amount[r]
    /\ accounts'[mem[r].num].balance = mem[r].balance - amount[r]

C23_TransactionFields ==
    \A i \in DOMAIN txns :
        /\ txns[i].amount > 0
        /\ txns[i].status = "Completed"
        /\ txns[i].type \in {"Deposit", "Withdrawal", "Transfer"}

\* C23 witness: the table holds records of two different types.
C23_Witness ==
    /\ Len(txns) = 2
    /\ txns[1].type # txns[2].type
    /\ AllFinished

\* ---------------------------------------------------------------- C24
\* The step is the call of deposit by caller r.
DepositStep(r) ==
    pc[r] = "loaded" /\ kind[r] = "deposit" /\ pc'[r] # "loaded"

\* The call of deposit by r returns True with the balance increased.
DepositSucceeds(r) ==
    /\ pc'[r] = "returned_true"
    /\ mem'[r].balance = mem[r].balance + amount[r]
    /\ accounts'[mem[r].num].balance = mem[r].balance + amount[r]

\* The balance column can hold b.
InColumn(b) == b <= MaxBalance /\ b >= 0 - MaxBalance

\* C24: the Account methods check no sign: deposit on an Active instance
\* returns True and stores balance + amount for every amount, zero and
\* negative ones included; withdraw on an Active instance with
\* amount <= balance returns True and stores balance - amount, negative
\* amounts included.
C24_NoSignCheck ==
    [][\A r \in Req :
          /\ (DepositStep(r) /\ mem[r].status = "Active")
                => DepositSucceeds(r)
          /\ (WithdrawStep(r) /\ mem[r].status = "Active"
                /\ amount[r] <= mem[r].balance)
                => WithdrawSucceeds(r)]_vars

\* C24, within the column: the same for every amount whose result the
\* balance column can hold; for the others save() raises, the call returns
\* nothing and no row changes.
C24_NoSignCheckInColumn ==
    [][\A r \in Req :
          /\ (DepositStep(r) /\ mem[r].status = "Active")
                => IF InColumn(mem[r].balance + amount[r])
                   THEN DepositSucceeds(r)
                   ELSE pc'[r] = "raised" /\ accounts' = accounts
          /\ (WithdrawStep(r) /\ mem[r].status = "Active"
                /\ amount[r] <= mem[r].balance)
                => IF InColumn(mem[r].balance - amount[r])
                   THEN WithdrawSucceeds(r)
                   ELSE pc'[r] = "raised" /\ accounts' = accounts]_vars

\* C24 witness: deposit of a negative amount has returned True and the row
\* holds the lowered balance.
C24_Witness ==
    \E r \in Req :
        /\ pc[r] = "returned_true" /\ kind[r] = "deposit"
        /\ amount[r] < 0
        /\ fl[r].num = NoAcc
        /\ accounts[mem[r].num].balance = mem[r].balance

\* ---------------------------------------------------------------- C25
\* C25: a step of a deposit, withdraw or transfer request leaves the stored
\* status of every account as it was, also when an administrator has changed
\* it after the request loaded the account.
C25_RequestsKeepStatus ==
    [][(\E r \in Req : pc'[r] # pc[r])
          => \A a \in Acc : accounts'[a].status = accounts[a].status]_vars

\* ---------------------------------------------------------------- C26
\* Browser r's request passes through the decorator.
DecoratorStep(r) == pc[r] = "idle" /\ pc'[r] \in {"form", "to_login"}

\* C26: the decorator lets a request through to the view body exactly when
\* the session holds the number of an account that exists and is Active at
\* that moment, and then request.account is that account and the session is
\* kept; with an empty session the request is redirected to login and the
\* session stays empty; with a missing or non-Active account the session is
\* flushed and the body does not run.  A page is rendered only by a body the
\* decorator let through.
C26_DecoratorGuards ==
    [][\A r \in Req :
          /\ DecoratorStep(r) =>
                /\ (pc'[r] = "form") <=>
                      (session[r] \in Acc /\ accounts[session[r]].status = "Active")
                /\ (pc'[r] = "form") =>
                      /\ mem'[r].num = session[r]
                      /\ mem'[r].status = "Active"
                      /\ session'[r] = session[r]
                /\ (pc'[r] = "to_login") =>
                      /\ session'[r] = NoSession
                      /\ mem'[r] = NoObj
                      /\ resp'[r] = NoResp
          /\ (pc'[r] = "shown" /\ pc[r] # "shown") =>
                /\ pc[r] = "form"
                /\ mem[r].num \in Acc
                /\ session'[r] = session[r]
      ]_vars

\* C26 witness: one browser's request is in a view body with its session's
\* account loaded, while another browser, whose session named an account
\* that is not Active, has been sent to login with its session flushed.
C26_Witness ==
    \E r, q \in Req :
        /\ pc[r] = "form" /\ session[r] \in Acc /\ mem[r].num = session[r]
        /\ pc[q] = "to_login" /\ session[q] = NoSession
        /\ \E a \in Acc : accounts[a].status # "Active"

\* ---------------------------------------------------------------- C27
\* Browser r's POST to account_login is answered.
LoginStep(r) ==
    pc[r] = "idle" /\ pc'[r] \in {"login_ok", "login_failed", "login_already"}

\* The submitted number names an Active account whose PIN is the submitted one.
CredentialsMatch(accnum, pin) ==
    /\ accnum \in Acc
    /\ accounts[accnum].status = "Active"
    /\ PinOf(accnum) = pin

\* C27: account_login writes an account number into the session only when
\* an Active account with the submitted number exists and its PIN equals
\* the submitted PIN, and then it writes that number; on a wrong PIN or a
\* missing or non-Active account the session is unchanged; when the session
\* already holds an account number the view redirects without reading the
\* submitted credentials and without changing the session.
C27_LoginNeedsPin ==
    [][\A r \in Req :
          LoginStep(r) =>
             /\ (session'[r] # session[r]) =>
                   /\ session[r] = NoSession
                   /\ CredentialsMatch(accIn'[r], pinIn'[r])
                   /\ session'[r] = accIn'[r]
             /\ (pc'[r] = "login_ok") <=>
                   /\ session[r] = NoSession
                   /\ CredentialsMatch(accIn'[r], pinIn'[r])
             /\ (pc'[r] = "login_failed") => session' = session
             /\ (session[r] # NoSession) =>
                   /\ pc'[r] = "login_already"
                   /\ session' = session
                   /\ accIn'[r] = accIn[r]
                   /\ pinIn'[r] = pinIn[r]
      ]_vars

\* C27 witness: one browser has logged in with the right PIN while another,
\* which submitted an Active account's number with a wrong PIN, has not.
C27_Witness ==
    \E r, q \in Req :
        /\ pc[r] = "login_ok" /\ session[r] = accIn[r] /\ session[r] \in Acc
        /\ pc[q] = "login_failed" /\ session[q] = NoSession
        /\ accIn[q] \in Acc /\ accounts[accIn[q]].status = "Active"
        /\ pinIn[q] \in Pins /\ pinIn[q] # PinOf(accIn[q])

\* ---------------------------------------------------------------- C28
\* C28: every stored balance, and every balance a transfer has written but
\* not yet committed, is at most the largest value the balance column holds
\* (MaxBalance here, 9999999999.99 in the schema), whatever deposits and
\* incoming transfers were made.
C28_BalanceWithinColumn ==
    /\ \A a \in Acc : accounts[a].balance <= MaxBalance
    /\ \A r \in Req : \A i \in 1..Len(pend[r]) : pend[r][i].balance <= MaxBalance

\* C28 witness: an incoming transfer has brought an account to exactly the
\* largest value, and a deposit that would have passed it ended in an error.
C28_Witness ==
    \E r, q \in Req :
        /\ pc[r] = "error" /\ kind[r] = "deposit"
        /\ pc[q] = "done" /\ kind[q] = "transfer"
        /\ \E i \in 1..Len(txns) :
              /\ txns[i].type = "Transfer"
              /\ accounts[txns[i].to].balance = MaxBalance

\* ---------------------------------------------------------------- C29
\* C29: the page account_list renders for a browser logged in as an account
\* holder (the only kind of session the views know) never contains an
\* account other than the holder's own.
C29_ListOnlyForStaff ==
    \A r \in Req :
        (pc[r] = "shown" /\ kind[r] = "list") =>
            resp[r].accounts \subseteq {session[r]}

\* ---------------------------------------------------------------- C30
\* The body of transaction_history or all_transactions renders r's page.
HistoryStep(r) ==
    /\ kind[r] \in {"history", "all"}
    /\ pc[r] = "form" /\ pc'[r] = "shown"

\* C30: whatever the account_number argument and the type filter are, the
\* page transaction_history or all_transactions renders contains only
\* Transactions whose from_account or to_account is the logged-in account.
C30_OwnTransactionsOnly ==
    [][\A r \in Req :
          HistoryStep(r) =>
             \A i \in resp'[r].txns :
                /\ i \in DOMAIN txns
                /\ txns[i].from = mem[r].num \/ txns[i].to = mem[r].num
      ]_vars

\* C30 witness: a history page shows some Transactions while the table also
\* holds Transactions of other accounts, which it does not show; among the
\* shown ones is a transfer made since.
C30_Witness ==
    \E r \in Req :
        /\ pc[r] = "shown" /\ kind[r] \in {"history", "all"}
        /\ resp[r].txns # {}
        /\ resp[r].txns # DOMAIN txns
        /\ \E i \in resp[r].txns : txns[i].type = "Transfer"

====
